---- MODULE Spec2Model ----
(***************************************************************************)
(* FlagWaver flag construction, pinning and per-frame update.              *)
(*                                                                         *)
(* Sources: helpers/buildRectangularFlagFromMedia.js (lines 1-192) and the *)
(* Flag subject that follows it in the same file (lines 193-481).  Cloth,  *)
(* Particle, FixedConstraint and the TypeUtils helpers are imported by     *)
(* that code but are not part of it; they are modelled from the design     *)
(* document (sections 3, 4.1-4.3 and 4.6).                                 *)
(*                                                                         *)
(* Lengths are counted in units of 4 cm, so that Flag.defaults             *)
(* (1.8 m x 1.2 m, restDistance 0.12 m) are the integers 45, 30 and 3.     *)
(* Areal mass is counted in mg per (4 cm)^2.                               *)
(***************************************************************************)
EXTENDS Integers, Sequences, FiniteSets, TLC

VARIABLES
    element,            \* construction input: the media element, or NoElement
    options,            \* construction input: the options object
    flagState,          \* "none" before construction, "built", or "degenerate"
    cloth,              \* this.cloth: the arguments handed to new Cloth(...)
    texture,            \* args.texture: the transform given to the renderer
    pins,               \* this.pins: sequence of particles (grid indices)
    lengthConstraints,  \* this.lengthConstraints: sequence of FixedConstraint
    position,           \* particle.position, per particle
    previous,           \* particle.previous, per particle
    pinned,             \* particle.pinned, per particle (design document 3)
    pc,                 \* where Flag.simulate stands: "idle", "pins", "constraints"
    i,                  \* loop index of the running loop of Flag.simulate
    deltaTime,          \* the argument of the running Flag.simulate call
    frames,             \* number of Flag.simulate calls made so far
    call,               \* history: the last call made on the flag, with arguments
    atCall,             \* history: position and previous when the last call began
    done                \* history: the steps the last Flag.simulate call has taken

vars == <<element, options, flagState, cloth, texture, pins, lengthConstraints,
          position, previous, pinned, pc, i, deltaTime, frames, call, atCall, done>>

----------------------------------------------------------------------------
(* JavaScript values.  A number is a fraction n/d with d >= 0: d = 0 holds  *)
(* the non-finite results of a division, 1/0 = Infinity, -1/0 = -Infinity   *)
(* and 0/0 = NaN.                                                           *)

Frac(n, d) == [t |-> "number", n |-> n, d |-> d]
Num(n) == Frac(n, 1)
Infinity == Frac(1, 0)
NaN == Frac(0, 0)
Str(s) == [t |-> "string", s |-> s]
Arr(a) == [t |-> "array", a |-> a]
Undefined == [t |-> "undefined"]
Auto == Str("auto")

IsNumber(x) == x.t = "number"
IsNaN(x) == IsNumber(x) /\ x.d = 0 /\ x.n = 0
IsFinite(x) == IsNumber(x) /\ x.d > 0
IsInteger(x) == IsFinite(x) /\ x.d = 1

Sign(n) == IF n > 0 THEN 1 ELSE IF n < 0 THEN -1 ELSE 0
Abs(n) == IF n < 0 THEN -n ELSE n

RECURSIVE Gcd(_, _)
Gcd(a, b) == IF b = 0 THEN a ELSE Gcd(b, a % b)

\* the fraction n/d in lowest terms, d >= 0
Lowest(n, d) ==
    IF d = 0 THEN Frac(Sign(n), 0)
    ELSE LET g == Gcd(Abs(n), Abs(d))
         IN  Frac(Sign(d) * (n \div g), Abs(d) \div g)

\* a / b on numbers (IEEE: x/0 is +-Infinity, 0/0 is NaN)
JsDiv(a, b) == Lowest(a.n * b.d, a.d * b.n)

\* a * b on numbers (Infinity * 0 is NaN)
JsMul(a, b) == Lowest(a.n * b.n, a.d * b.d)

\* a < b on numbers; every comparison with NaN is false
JsLt(a, b) ==
    /\ ~IsNaN(a) /\ ~IsNaN(b)
    /\ IF a.d = 0 /\ b.d = 0 THEN a.n < b.n
       ELSE IF a.d = 0 THEN a.n < 0
       ELSE IF b.d = 0 THEN b.n > 0
       ELSE a.n * b.d < b.n * a.d

JsGe(a, b) == ~IsNaN(a) /\ ~IsNaN(b) /\ ~JsLt(a, b)

\* Math.max(a, b) and Math.min(a, b): NaN if either argument is NaN
MathMax(a, b) == IF IsNaN(a) \/ IsNaN(b) THEN NaN ELSE IF JsLt(a, b) THEN b ELSE a
MathMin(a, b) == IF IsNaN(a) \/ IsNaN(b) THEN NaN ELSE IF JsLt(b, a) THEN b ELSE a

\* Math.floor(x) and Math.round(x) (round half up); non-finite values pass through
MathFloor(x) == IF x.d = 0 THEN x ELSE Num(x.n \div x.d)
MathRound(x) == IF x.d = 0 THEN x ELSE Num((2 * x.n + x.d) \div (2 * x.d))

\* utils/TypeUtils isNumeric: a finite number
isNumeric(x) == IsFinite(x)

\* Object.assign({}, a, b): the own properties of b override those of a
Assign(a, b) ==
    [k \in (DOMAIN a) \cup (DOMAIN b) |-> IF k \in DOMAIN b THEN b[k] ELSE a[k]]

----------------------------------------------------------------------------
(* constants.js                                                            *)

TOP == "top"
LEFT == "left"
BOTTOM == "bottom"
RIGHT == "right"
Sides == {TOP, LEFT, BOTTOM, RIGHT}
DEXTER == "dexter"
SINISTER == "sinister"
Hoistings == {DEXTER, SINISTER}

----------------------------------------------------------------------------
(* buildRectangularFlagFromMedia.js, lines 9-192                           *)

\* Maximum size of flag: 500 m
maxSize == 12500

\* Flag.defaults (lines 385-395)
DefaultWidth == 45
DefaultHeight == 30
DefaultMass == 176
DefaultRestDistance == 3

FlagDefaults ==
    [width |-> Num(DefaultWidth), height |-> Num(DefaultHeight),
     mass |-> Num(DefaultMass), restDistance |-> Num(DefaultRestDistance),
     pin |-> [edges |-> Arr(<<Str(LEFT)>>)]]

\* defaults (lines 12-18), resolution left out: it only scales the image
defaults ==
    [width |-> Auto, height |-> Auto, hoisting |-> Str(DEXTER), orientation |-> Str(TOP)]

NoElement == [kind |-> "none"]
Image(w, h) == [kind |-> "image", width |-> Num(w), height |-> Num(h)]

\* Calculate width and/or height from image if either is set to 'auto'
computeSizeFromElement(el, opts) ==
    LET elementWidth == el.width
        elementHeight == el.height
        crossWidth == FlagDefaults.height
    IN  IF opts.width = Auto /\ opts.height = Auto
        THEN IF JsLt(elementWidth, elementHeight)
             THEN [width |-> crossWidth,
                   height |-> JsDiv(JsMul(crossWidth, elementHeight), elementWidth)]
             ELSE [width |-> JsDiv(JsMul(crossWidth, elementWidth), elementHeight),
                   height |-> crossWidth]
        ELSE IF opts.width = Auto /\ isNumeric(opts.height)
        THEN [width |-> JsDiv(JsMul(opts.height, elementWidth), elementHeight),
              height |-> opts.height]
        ELSE IF isNumeric(opts.width) /\ opts.height = Auto
        THEN [width |-> opts.width,
              height |-> JsDiv(JsMul(opts.width, elementHeight), elementWidth)]
        ELSE [width |-> opts.width, height |-> opts.height]

\* Compute a numeric width and height from options
computeSize(el, opts) ==
    LET size == IF el # NoElement THEN computeSizeFromElement(el, opts)
                ELSE [width |-> opts.width, height |-> opts.height]
    IN  IF isNumeric(size.width) /\ isNumeric(size.height)
        THEN LET scale == MathMin(Num(1),
                                  JsDiv(Num(maxSize), MathMax(size.width, size.height)))
             IN  [width |-> JsMul(size.width, scale), height |-> JsMul(size.height, scale)]
        ELSE [width |-> FlagDefaults.width, height |-> FlagDefaults.height]

\* isVertical with one of its two sides forgotten
isVertical_leftOnly(opts) == opts.orientation = Str(LEFT)

\* Check if flag has been rotated into a vertical position
isVertical(opts) == opts.orientation = Str(LEFT) \/ opts.orientation = Str(RIGHT)

\* Compute values needed to apply texture onto mesh; rotate stands for
\* getAngleOfSide(orientation), kept as the side it is the angle of
computeTextureArgs(opts) ==
    [reflect |-> (opts.hoisting = Str(SINISTER)), rotate |-> opts.orientation]

\* Default flag texture (Flag.js line 216)
WHITE_TEXTURE == [kind |-> "white"]

\* Compute values needed to create new flag
computeFlagArgs(el, opts) ==
    LET swapped == IF isVertical(opts)
                   THEN Assign(opts, [width |-> opts.height, height |-> opts.width])
                   ELSE opts
    IN  IF el # NoElement
        THEN Assign(swapped, [texture |-> computeTextureArgs(opts)])
        ELSE swapped

----------------------------------------------------------------------------
(* Flag.js: buildCloth, pin                                                *)

\* new Cloth(xSegments, ySegments, restDistance, mass): the four arguments
buildCloth(settings) ==
    [xSegments |-> MathMax(Num(1), MathRound(JsDiv(settings.width, settings.restDistance))),
     ySegments |-> MathMax(Num(1), MathRound(JsDiv(settings.height, settings.restDistance))),
     restDistance |-> settings.restDistance,
     mass |-> JsMul(JsMul(settings.mass, settings.width), settings.height)]

NoCloth == [xSegments |-> NaN, ySegments |-> NaN, restDistance |-> NaN, mass |-> NaN]

\* A Cloth can lay out its grid only for finite whole segment counts
Usable(c) == IsInteger(c.xSegments) /\ IsInteger(c.ySegments) /\ IsInteger(c.restDistance)

xSegments == cloth.xSegments.n
ySegments == cloth.ySegments.n
restDistance == cloth.restDistance.n

\* cloth.particleAt(u, v): a particle is named by its grid indices
particleAt(u, v) == <<u, v>>
ParticlesOf(c) == IF Usable(c) THEN (0..c.xSegments.n) \X (0..c.ySegments.n) ELSE {}
Particles == ParticlesOf(cloth)

\* particle.original: the rest position on the grid (x, y)
OriginalIn(c, p) == <<p[1] * c.restDistance.n, p[2] * c.restDistance.n>>
original(p) == OriginalIn(cloth, p)

\* defaults of pin (lines 285-288)
pinDefaults == [edges |-> Arr(<< >>), spacing |-> Num(1)]

\* ensureValidSpacing rounding up instead of down
ensureValidSpacing_ceil(spacing) ==
    IF isNumeric(spacing) /\ JsGe(spacing, Num(1))
    THEN Num(-((-spacing.n) \div spacing.d))
    ELSE pinDefaults.spacing

ensureValidSpacing(spacing) ==
    IF isNumeric(spacing) /\ JsGe(spacing, Num(1))
    THEN MathFloor(spacing)
    ELSE pinDefaults.spacing

\* the for loop of one case of pinEdge, from index k on
RECURSIVE pinEdgeFrom(_, _, _, _, _)
pinEdgeFrom(c, ps, edge, spacing, k) ==
    CASE edge = Str(TOP) ->
            IF k <= c.xSegments.n
            THEN pinEdgeFrom(c, Append(ps, particleAt(k, c.ySegments.n)), edge, spacing, k + spacing)
            ELSE ps
      [] edge = Str(LEFT) ->
            IF k <= c.ySegments.n
            THEN pinEdgeFrom(c, Append(ps, particleAt(0, k)), edge, spacing, k + spacing)
            ELSE ps
      [] edge = Str(BOTTOM) ->
            IF k <= c.xSegments.n
            THEN pinEdgeFrom(c, Append(ps, particleAt(k, 0)), edge, spacing, k + spacing)
            ELSE ps
      [] edge = Str(RIGHT) ->
            IF k <= c.ySegments.n
            THEN pinEdgeFrom(c, Append(ps, particleAt(c.xSegments.n, k)), edge, spacing, k + spacing)
            ELSE ps
      [] OTHER -> ps

pinEdge(c, ps, edge, settings) == pinEdgeFrom(c, ps, edge, settings.spacing.n, 0)

\* the loop over an array of edges giving up at the first edge it does not know
RECURSIVE pinEdgesFrom_stopAtUnknown(_, _, _, _, _)
pinEdgesFrom_stopAtUnknown(c, ps, edges, settings, k) ==
    IF k <= Len(edges) /\ edges[k] \in {Str(e) : e \in Sides}
    THEN pinEdgesFrom_stopAtUnknown(c, pinEdge(c, ps, edges[k], settings), edges, settings, k + 1)
    ELSE ps

\* the loop over an array of edges, from index k on
RECURSIVE pinEdgesFrom(_, _, _, _, _)
pinEdgesFrom(c, ps, edges, settings, k) ==
    IF k <= Len(edges)
    THEN pinEdgesFrom(c, pinEdge(c, ps, edges[k], settings), edges, settings, k + 1)
    ELSE ps

\* pin(cloth, pins, options): the pins array after the call
pinInto(c, ps, opts) ==
    LET merged == IF opts = Undefined THEN pinDefaults ELSE Assign(pinDefaults, opts)
        settings == Assign(merged, [spacing |-> ensureValidSpacing(merged.spacing)])
        edges == settings.edges
    IN  IF edges.t = "string"
        THEN pinEdge(c, ps, edges, settings)
        ELSE IF edges.t = "array" /\ Len(edges.a) > 0
        THEN pinEdgesFrom(c, ps, edges.a, settings, 1)
        ELSE ps

\* one FixedConstraint(p1, p2, restDistance)
FixedConstraint(p1, p2, rest) == [p1 |-> p1, p2 |-> p2, restDistance |-> rest]

\* Add horizontal constraints that run from hoist to fly: the nested loops
\* of setLengthConstraints for Side.LEFT, from (v, u) on
RECURSIVE leftLoop(_, _, _, _)
leftLoop(c, lc, v, u) ==
    IF v <= c.ySegments.n
    THEN IF u < c.xSegments.n
         THEN leftLoop(c, Append(lc, FixedConstraint(particleAt(u, v), particleAt(u + 1, v),
                                                     c.restDistance.n)), v, u + 1)
         ELSE leftLoop(c, lc, v + 1, 0)
    ELSE lc

\* the loops for Side.TOP running each column from bottom to top
RECURSIVE topLoop_bottomUp(_, _, _, _)
topLoop_bottomUp(c, lc, u, v) ==
    IF u <= c.xSegments.n
    THEN IF v > 0
         THEN topLoop_bottomUp(c, Append(lc, FixedConstraint(
                                   particleAt(u, c.ySegments.n - v + 1),
                                   particleAt(u, c.ySegments.n - v),
                                   c.restDistance.n)), u, v - 1)
         ELSE topLoop_bottomUp(c, lc, u + 1, c.ySegments.n)
    ELSE lc

\* Add vertical constraints that run from top to bottom: the nested loops
\* of setLengthConstraints for Side.TOP, from (u, v) on
RECURSIVE topLoop(_, _, _, _)
topLoop(c, lc, u, v) ==
    IF u <= c.xSegments.n
    THEN IF v > 0
         THEN topLoop(c, Append(lc, FixedConstraint(particleAt(u, v), particleAt(u, v - 1),
                                                    c.restDistance.n)), u, v - 1)
         ELSE topLoop(c, lc, u + 1, c.ySegments.n)
    ELSE lc

buildLengthConstraints(c, hoistwardSide) ==
    IF hoistwardSide = Str(LEFT) THEN leftLoop(c, << >>, 0, 0)
    ELSE IF hoistwardSide = Str(TOP) THEN topLoop(c, << >>, 0, c.ySegments.n)
    ELSE << >>

----------------------------------------------------------------------------
(* Cloth, Particle and the distance constraints, after the design document *)
(* (sections 3, 4.1, 4.2, 4.3, 4.6).  Positions are integer vectors        *)
(* (x, y) in the plane of the flag at rest.                                *)

VAdd(a, b) == <<a[1] + b[1], a[2] + b[2]>>
VSub(a, b) == <<a[1] - b[1], a[2] - b[2]>>

\* n / d rounded toward zero, d > 0
Trunc(n, d) == Sign(n) * (Abs(n) \div d)
VScale(a, n, d) == <<Trunc(a[1] * n, d), Trunc(a[2] * n, d)>>

\* whole part of the square root
RECURSIVE SqrtFrom(_, _)
SqrtFrom(n, r) == IF (r + 1) * (r + 1) > n THEN r ELSE SqrtFrom(n, r + 1)
VLength(a) == SqrtFrom(a[1] * a[1] + a[2] * a[2], 0)

\* damping coefficient of the integration step, as a fraction
DampingNum == 1
DampingDen == 2
\* uniform gravitational acceleration times dt^2, for dt = 1
GravityStep == 4
Gravity == <<0, -GravityStep>>
\* relaxation passes per frame
RelaxPasses == 1

\* 4.1: Verlet step of one particle; a pinned particle skips it
integrate(pos, prev, pin, p, acc, dt) ==
    IF pin[p] THEN pos[p]
    ELSE VAdd(VAdd(pos[p], VScale(VSub(pos[p], prev[p]), DampingNum, DampingDen)),
              VScale(acc, dt * dt, 1))

\* 4.2: one relaxation step of a distance constraint; yields the positions
resolve(pos, pin, con) ==
    LET diff == VSub(pos[con.p2], pos[con.p1])
        len == VLength(diff)
        corr == IF len = 0 THEN <<0, 0>> ELSE VScale(diff, len - con.restDistance, len)
        half == VScale(corr, 1, 2)
        m1 == IF pin[con.p1] THEN <<0, 0>>
              ELSE IF pin[con.p2] THEN corr ELSE half
        m2 == IF pin[con.p2] THEN <<0, 0>>
              ELSE IF pin[con.p1] THEN corr ELSE VSub(corr, half)
    IN  [pos EXCEPT ![con.p1] = VAdd(pos[con.p1], m1), ![con.p2] = VSub(pos[con.p2], m2)]

\* resolve() of the constraints cs[k..], in order
RECURSIVE resolveFrom(_, _, _, _)
resolveFrom(pos, pin, cs, k) ==
    IF k <= Len(cs) THEN resolveFrom(resolve(pos, pin, cs[k]), pin, cs, k + 1) ELSE pos

\* 3: the structural constraints of the grid, built once at construction
RECURSIVE structuralFrom(_, _, _, _)
structuralFrom(c, cs, v, u) ==
    IF v <= c.ySegments.n
    THEN IF u <= c.xSegments.n
         THEN LET right == IF u < c.xSegments.n
                           THEN <<FixedConstraint(particleAt(u, v), particleAt(u + 1, v),
                                                  c.restDistance.n)>>
                           ELSE << >>
                  up == IF v < c.ySegments.n
                        THEN <<FixedConstraint(particleAt(u, v), particleAt(u, v + 1),
                                               c.restDistance.n)>>
                        ELSE << >>
              IN  structuralFrom(c, cs \o right \o up, v, u + 1)
         ELSE structuralFrom(c, cs, v + 1, 0)
    ELSE cs

constraints == structuralFrom(cloth, << >>, 0, 0)

RECURSIVE relax(_, _, _)
relax(pos, pin, passes) ==
    IF passes > 0 THEN relax(resolveFrom(pos, pin, constraints, 1), pin, passes - 1) ELSE pos

\* 4.3: Cloth.simulate(dt) under the wind force of this frame:
\* integrate every particle, then relax the constraints
clothSimulate(pos, prev, pin, dt, wind) ==
    LET moved == [p \in DOMAIN pos |-> integrate(pos, prev, pin, p, VAdd(Gravity, wind), dt)]
    IN  [position |-> relax(moved, pin, RelaxPasses), previous |-> pos]

\* 4.6: Cloth.reset()
clothReset(c) == [p \in ParticlesOf(c) |-> OriginalIn(c, p)]

----------------------------------------------------------------------------
(* Bounds and inputs                                                       *)

\* Flag.simulate is called at most MaxFrames times
MaxFrames == 2
\* pin is called only while pins holds at most MaxPins entries afterwards
MaxPins == 4

EmptyObject == [k \in {} |-> Undefined]

\* inputs of the construction: every way to leave out or give an option
SizeOptions ==
    {EmptyObject, [width |-> Num(6)], [height |-> Num(6)]}
    \cup {[width |-> Num(w), height |-> Num(h)] : w \in {0, 3, 6, 9}, h \in {0, 6}}
RestOptions == {EmptyObject} \cup {[restDistance |-> Num(r)] : r \in {-3, 0, 3, 4}}
SideOptions == {EmptyObject} \cup {[orientation |-> Str(o)] : o \in Sides}
HoistOptions == {EmptyObject} \cup {[hoisting |-> Str(h)] : h \in Hoistings}
Elements == {NoElement, Image(60, 40), Image(40, 60)}

\* a design larger than maxSize (1000 m x 500 m), on a coarse grid
HugeOptions ==
    {Assign([width |-> Num(25000), height |-> Num(12500), mass |-> Num(1),
             restDistance |-> Num(6250)], o) : o \in SideOptions}

BuildInputs ==
    {[element |-> e, options |-> Assign(Assign(Assign(s, r), o), h)] :
        e \in Elements, s \in SizeOptions, r \in RestOptions, o \in SideOptions,
        h \in HoistOptions}
    \cup {[element |-> NoElement, options |-> o] : o \in HugeOptions}

\* grids of 1..3 by 2 segments for the pinning operations
PinGridInputs ==
    {[element |-> NoElement,
      options |-> [width |-> Num(w), height |-> Num(h), restDistance |-> Num(3)]] :
        w \in {3, 6, 9}, h \in {6}}

EdgeInputs ==
    {Str(e) : e \in Sides \cup {"diagonal"}}
    \cup {Arr(<< >>), Arr(<<Str(TOP), Str(LEFT)>>),
          Arr(<<Str("diagonal"), Str(RIGHT)>>), Arr(<<Str(BOTTOM), Undefined>>),
          Undefined}
SpacingInputs ==
    {Num(-1), Num(0), Frac(1, 2), Num(1), Num(2), Frac(5, 2), Str("wide"), Undefined}
PinInputs ==
    {Undefined, EmptyObject}
    \cup {[edges |-> e] : e \in EdgeInputs}
    \cup {[edges |-> e, spacing |-> s] : e \in EdgeInputs, s \in SpacingInputs}

HoistwardInputs == {Str(LEFT), Str(TOP), Str(RIGHT)}

\* the simulated flag: 1 x 1 segments of restDistance 4, with or without image
SimInputs ==
    {[element |-> e,
      options |-> [width |-> Num(4), height |-> Num(4), restDistance |-> Num(4)]] :
        e \in {NoElement, Image(60, 40)}}
SimPinInputs == {[edges |-> Str(LEFT)], [edges |-> Str(RIGHT)]}
SimHoistwardInputs == {Str(LEFT), Str(TOP), Undefined}
DeltaTimes == {0, 1}
WindStep == 2
Winds == {<<0, 0>>, <<WindStep, 0>>}

----------------------------------------------------------------------------
(* State machine                                                           *)

NoCall == [op |-> "none", arg |-> Undefined]

InitFrom(inputs) ==
    /\ \E in \in inputs : element = in.element /\ options = in.options
    /\ flagState = "none"
    /\ cloth = NoCloth
    /\ texture = WHITE_TEXTURE
    /\ pins = << >>
    /\ lengthConstraints = << >>
    /\ position = << >>
    /\ previous = << >>
    /\ pinned = << >>
    /\ pc = "idle"
    /\ i = 0
    /\ deltaTime = 0
    /\ frames = 0
    /\ call = NoCall
    /\ atCall = [position |-> << >>, previous |-> << >>]
    /\ done = << >>

\* buildRectangularFlagFromMedia(element, options): the args of new Flag
FlagArgs(el, opts) ==
    LET settings == Assign(defaults, opts)
        sized == Assign(settings, computeSize(el, settings))
    IN  computeFlagArgs(el, sized)

\* new Flag(args), reached through buildRectangularFlagFromMedia
buildRectangularFlagFromMedia ==
    /\ flagState = "none"
    /\ LET settings == Assign(FlagDefaults, FlagArgs(element, options))
           c == buildCloth(settings)
       IN  /\ cloth' = c
           /\ texture' = IF "texture" \in DOMAIN settings THEN settings.texture
                         ELSE WHITE_TEXTURE
           /\ flagState' = IF Usable(c) THEN "built" ELSE "degenerate"
           /\ pins' = IF Usable(c) THEN pinInto(c, << >>, settings.pin) ELSE << >>
           /\ position' = clothReset(c)
           /\ previous' = clothReset(c)
           /\ pinned' = [p \in ParticlesOf(c) |-> FALSE]
           /\ atCall' = [position |-> clothReset(c), previous |-> clothReset(c)]
    /\ lengthConstraints' = << >>
    /\ done' = << >>
    /\ call' = [op |-> "new", arg |-> Undefined]
    /\ UNCHANGED <<element, options, pc, i, deltaTime, frames>>

Ready == flagState = "built" /\ pc = "idle"

\* Flag.pin(options)
pin(opts) ==
    /\ Ready
    /\ Len(pinInto(cloth, pins, opts)) <= MaxPins
    /\ pins' = pinInto(cloth, pins, opts)
    /\ call' = [op |-> "pin", arg |-> opts]
    /\ atCall' = [position |-> position, previous |-> previous]
    /\ done' = << >>
    /\ UNCHANGED <<element, options, flagState, cloth, texture, lengthConstraints,
                   position, previous, pinned, pc, i, deltaTime, frames>>

\* Flag.unpin()
unpin ==
    /\ Ready
    /\ pins' = << >>
    /\ call' = [op |-> "unpin", arg |-> Undefined]
    /\ atCall' = [position |-> position, previous |-> previous]
    /\ done' = << >>
    /\ UNCHANGED <<element, options, flagState, cloth, texture, lengthConstraints,
                   position, previous, pinned, pc, i, deltaTime, frames>>

\* Flag.setLengthConstraints(hoistwardSide)
setLengthConstraints(hoistwardSide) ==
    /\ Ready
    /\ lengthConstraints' = buildLengthConstraints(cloth, hoistwardSide)
    /\ call' = [op |-> "setLengthConstraints", arg |-> hoistwardSide]
    /\ atCall' = [position |-> position, previous |-> previous]
    /\ done' = << >>
    /\ UNCHANGED <<element, options, flagState, cloth, texture, pins,
                   position, previous, pinned, pc, i, deltaTime, frames>>

\* reset that also forgets the pins
reset_clearsPins ==
    /\ Ready
    /\ position' = clothReset(cloth)
    /\ previous' = clothReset(cloth)
    /\ pins' = << >>
    /\ call' = [op |-> "reset", arg |-> Undefined]
    /\ atCall' = [position |-> position, previous |-> previous]
    /\ done' = << >>
    /\ UNCHANGED <<element, options, flagState, cloth, texture, lengthConstraints,
                   pinned, pc, i, deltaTime, frames>>

\* Flag.reset()
reset ==
    /\ Ready
    /\ position' = clothReset(cloth)
    /\ previous' = clothReset(cloth)
    /\ call' = [op |-> "reset", arg |-> Undefined]
    /\ atCall' = [position |-> position, previous |-> previous]
    /\ done' = << >>
    /\ UNCHANGED <<element, options, flagState, cloth, texture, pins, lengthConstraints,
                   pinned, pc, i, deltaTime, frames>>

\* Flag.simulate running the length constraints in place of the pins
afterCloth_constraintsFirst ==
    IF Len(lengthConstraints) > 0 THEN "constraints"
    ELSE IF Len(pins) > 0 THEN "pins" ELSE "idle"

\* where Flag.simulate goes on after the cloth, after j pins, after j constraints
afterCloth ==
    IF Len(pins) > 0 THEN "pins"
    ELSE IF Len(lengthConstraints) > 0 THEN "constraints" ELSE "idle"
afterPin(j) ==
    IF j < Len(pins) THEN "pins"
    ELSE IF Len(lengthConstraints) > 0 THEN "constraints" ELSE "idle"
afterConstraint(j) == IF j < Len(lengthConstraints) THEN "constraints" ELSE "idle"

\* Flag.simulate stepping the cloth by at least one time unit
simulate_minStep(dt, wind) ==
    /\ Ready
    /\ frames < MaxFrames
    /\ LET out == clothSimulate(position, previous, pinned, IF dt < 1 THEN 1 ELSE dt, wind)
       IN  position' = out.position /\ previous' = out.previous
    /\ deltaTime' = dt
    /\ frames' = frames + 1
    /\ pc' = afterCloth
    /\ i' = 0
    /\ call' = [op |-> "simulate", arg |-> Num(dt)]
    /\ atCall' = [position |-> position, previous |-> previous]
    /\ done' = <<[step |-> "cloth", at |-> 0]>>
    /\ UNCHANGED <<element, options, flagState, cloth, texture, pins, lengthConstraints,
                   pinned>>

\* Flag.simulate(deltaTime), line 459: this.cloth.simulate(deltaTime)
simulate(dt, wind) ==
    /\ Ready
    /\ frames < MaxFrames
    /\ LET out == clothSimulate(position, previous, pinned, dt, wind)
       IN  position' = out.position /\ previous' = out.previous
    /\ deltaTime' = dt
    /\ frames' = frames + 1
    /\ pc' = afterCloth
    /\ i' = 0
    /\ call' = [op |-> "simulate", arg |-> Num(dt)]
    /\ atCall' = [position |-> position, previous |-> previous]
    /\ done' = <<[step |-> "cloth", at |-> 0]>>
    /\ UNCHANGED <<element, options, flagState, cloth, texture, pins, lengthConstraints,
                   pinned>>

\* Flag.simulate, lines 462-470: one turn of the loop over pins
simulatePin ==
    /\ pc = "pins"
    /\ LET particle == pins[i + 1]
       IN  /\ position' = [position EXCEPT ![particle] = original(particle)]
           /\ previous' = [previous EXCEPT ![particle] = original(particle)]
    /\ pc' = afterPin(i + 1)
    /\ i' = IF afterPin(i + 1) = "pins" THEN i + 1 ELSE 0
    /\ done' = Append(done, [step |-> "pin", at |-> i + 1])
    /\ UNCHANGED <<element, options, flagState, cloth, texture, pins, lengthConstraints,
                   pinned, deltaTime, frames, call, atCall>>

\* Flag.simulate, lines 473-475: one turn of the loop over lengthConstraints
simulateConstraint ==
    /\ pc = "constraints"
    /\ position' = resolve(position, pinned, lengthConstraints[i + 1])
    /\ pc' = afterConstraint(i + 1)
    /\ i' = IF afterConstraint(i + 1) = "constraints" THEN i + 1 ELSE 0
    /\ done' = Append(done, [step |-> "resolve", at |-> i + 1])
    /\ UNCHANGED <<element, options, flagState, cloth, texture, pins, lengthConstraints,
                   previous, pinned, deltaTime, frames, call, atCall>>

pinCall(inputs) == \E opts \in inputs : pin(opts)
setLengthConstraintsCall(inputs) == \E side \in inputs : setLengthConstraints(side)
simulateCall == \E dt \in DeltaTimes, wind \in Winds : simulate(dt, wind)

\* construction alone
InitBuild == InitFrom(BuildInputs)
NextBuild == buildRectangularFlagFromMedia
SpecBuild == InitBuild /\ [][NextBuild]_vars

\* construction, pinning and the length constraints
InitPin == InitFrom(PinGridInputs)
NextPin ==
    \/ buildRectangularFlagFromMedia
    \/ pinCall(PinInputs)
    \/ unpin
    \/ setLengthConstraintsCall(HoistwardInputs)
SpecPin == InitPin /\ [][NextPin]_vars

\* the whole life of a simulated flag
Init == InitFrom(SimInputs)
Next ==
    \/ buildRectangularFlagFromMedia
    \/ pinCall(SimPinInputs)
    \/ unpin
    \/ setLengthConstraintsCall(SimHoistwardInputs)
    \/ reset
    \/ simulateCall
    \/ simulatePin
    \/ simulateConstraint
Spec == Init /\ [][Next]_vars

----------------------------------------------------------------------------
(* Properties                                                              *)

Returned(op) == pc = "idle" /\ call.op = op
ClothFor(el, opts) == buildCloth(Assign(FlagDefaults, FlagArgs(el, opts)))
Oriented(o, h) == Assign(options, [orientation |-> Str(o), hoisting |-> Str(h)])

\* C1: at the return of every Flag.simulate call, every particle in pins is
\* at its original position, whatever edges are pinned and whatever side the
\* length constraints start from.
C1_PinInvariant ==
    Returned("simulate") =>
        \A k \in 1..Len(pins) : position[pins[k]] = original(pins[k])

\* C2: after any sequence of pin calls, no particle occurs twice in pins.
C2_PinnedOnce ==
    \A j, k \in 1..Len(pins) : pins[j] = pins[k] => j = k

\* C3: for fixed width, height and restDistance the cloth has the same
\* xSegments and ySegments for every hoisting and every orientation.
C3_SameGeometry ==
    flagState # "none" =>
        \A o \in Sides, h \in Hoistings :
            /\ ClothFor(element, Oriented(o, h)).xSegments = cloth.xSegments
            /\ ClothFor(element, Oriented(o, h)).ySegments = cloth.ySegments

\* C3 as amended: hoisting never changes the segment counts; two orientations
\* that are both horizontal (top, bottom) or both vertical (left, right) give
\* the same counts, and a horizontal and a vertical one give exchanged counts,
\* because width and height are exchanged for left and right.
C3_Transposed ==
    flagState # "none" =>
        \A o \in Sides, h \in Hoistings :
            LET other == ClothFor(element, Oriented(o, h))
                now == Assign(defaults, options).orientation
                same == (o \in {LEFT, RIGHT}) = (now \in {Str(LEFT), Str(RIGHT)})
            IN  /\ other.xSegments = IF same THEN cloth.xSegments ELSE cloth.ySegments
                /\ other.ySegments = IF same THEN cloth.ySegments ELSE cloth.xSegments

\* C3 witness: a flag built with orientation right whose two segment counts differ
C3_Witness ==
    /\ flagState = "built"
    /\ "orientation" \in DOMAIN options /\ options.orientation = Str(RIGHT)
    /\ "hoisting" \in DOMAIN options /\ options.hoisting = Str(SINISTER)
    /\ cloth.xSegments # cloth.ySegments

\* k = max(1, round(extent / rest)) for finite extent >= 0 and rest # 0:
\* extent / rest < k + 1/2, and k - 1/2 <= extent / rest unless k = 1
ClampedRound(k, extent, rest) ==
    LET a == 2 * extent.n * rest.d * Sign(rest.n)
        b == extent.d * Abs(rest.n)
    IN  /\ k >= 1
        /\ a < (2 * k + 1) * b
        /\ k > 1 => (2 * k - 1) * b <= a

\* C4: both segment counts handed to the Cloth are finite whole numbers >= 1,
\* for every width, height and restDistance, restDistance = 0 included.
C4_Clamped ==
    flagState # "none" =>
        LET given == Assign(FlagDefaults, FlagArgs(element, options))
        IN  /\ IsInteger(cloth.xSegments) /\ cloth.xSegments.n >= 1
            /\ IsInteger(cloth.ySegments) /\ cloth.ySegments.n >= 1
            /\ ClampedRound(cloth.xSegments.n, given.width, given.restDistance)
            /\ ClampedRound(cloth.ySegments.n, given.height, given.restDistance)

\* the stride the pinning policy names for a spacing value
StrideOf(sp) ==
    IF sp.t = "number" /\ sp.d > 0 /\ sp.n >= sp.d THEN sp.n \div sp.d ELSE 1

\* the particles at indices 0, s, 2s, ... of an edge, in that order
EveryNth(edge, s) ==
    LET last == IF edge \in {TOP, BOTTOM} THEN xSegments ELSE ySegments
    IN  [k \in 1..((last \div s) + 1) |->
            CASE edge = TOP -> <<(k - 1) * s, ySegments>>
              [] edge = LEFT -> <<0, (k - 1) * s>>
              [] edge = BOTTOM -> <<(k - 1) * s, 0>>
              [] edge = RIGHT -> <<xSegments, (k - 1) * s>>]

IsSide(e) == e.t = "string" /\ e.s \in Sides
SpacingOf(opts) ==
    IF opts # Undefined /\ "spacing" \in DOMAIN opts THEN opts.spacing ELSE Undefined
\* the edges of a pin call as a sequence (a single string is one edge)
EdgesOf(opts) ==
    IF opts = Undefined \/ "edges" \notin DOMAIN opts THEN << >>
    ELSE IF opts.edges.t = "string" THEN <<opts.edges>>
    ELSE IF opts.edges.t = "array" THEN opts.edges.a ELSE << >>

RECURSIVE Flatten(_)
Flatten(ss) == IF ss = << >> THEN << >> ELSE Head(ss) \o Flatten(Tail(ss))

\* C5: a pin call uses the stride floor(spacing) when spacing is a number >= 1
\* and 1 otherwise, and for each selected edge appends exactly the particles at
\* indices 0, s, 2s, ... up to the edge's segment count; the stride is a
\* positive whole number, so each loop ends.
C5_PinStride ==
    [][(call'.op = "pin" /\ \A k \in 1..Len(EdgesOf(call'.arg)) : IsSide(EdgesOf(call'.arg)[k]))
        => LET sp == SpacingOf(call'.arg)
               s == StrideOf(sp)
               es == EdgesOf(call'.arg)
           IN  /\ ensureValidSpacing(sp) = Num(s)
               /\ s >= 1
               /\ pins' = pins \o Flatten([k \in 1..Len(es) |-> EveryNth(es[k].s, s)])]_vars

\* C5 witness: the top edge of a grid of 3 segments pinned with spacing 5/2
C5_Witness ==
    /\ call.op = "pin"
    /\ call.arg = [edges |-> Str(TOP), spacing |-> Frac(5, 2)]
    /\ xSegments = 3
    /\ pins = <<<<0, 2>>, <<2, 2>>>>

\* C6: in a pin call, an edge outside top, left, bottom, right adds nothing
\* and stops nothing: pins grows by exactly what each recognized edge of the
\* call adds when it is passed alone.
C6_UnknownEdgesIgnored ==
    [][(call'.op = "pin" /\ \E k \in 1..Len(EdgesOf(call'.arg)) : ~IsSide(EdgesOf(call'.arg)[k]))
        => LET es == EdgesOf(call'.arg)
               alone(e) == IF IsSide(e)
                           THEN pinInto(cloth, << >>, Assign(call'.arg, [edges |-> e]))
                           ELSE << >>
           IN  pins' = pins \o Flatten([k \in 1..Len(es) |-> alone(es[k])])]_vars

\* C6 witness: an unknown edge before a known one, and the known one was added
C6_Witness ==
    /\ call.op = "pin"
    /\ call.arg = [edges |-> Arr(<<Str("diagonal"), Str(RIGHT)>>), spacing |-> Num(2)]
    /\ xSegments = 2
    /\ pins = <<<<2, 0>>, <<2, 2>>>>

\* every constraint of cs holds exactly in pos
Satisfied(pos, cs) ==
    \A k \in 1..Len(cs) : VLength(VSub(pos[cs[k].p2], pos[cs[k].p1])) = cs[k].restDistance

\* C7: in every reachable state, simulate(0) leaves every position unchanged.
C7_ZeroDtAnyState ==
    (Returned("simulate") /\ call.arg = Num(0)) => position = atCall.position

\* C7 as amended: simulate(0) leaves every position unchanged when, at the
\* call, no particle has velocity (position = previous), every particle in
\* pins is at its original position, and every constraint of the cloth and
\* every length constraint is already satisfied.
C7_ZeroDtAtRest ==
    (/\ Returned("simulate") /\ call.arg = Num(0)
     /\ atCall.previous = atCall.position
     /\ \A k \in 1..Len(pins) : atCall.position[pins[k]] = original(pins[k])
     /\ Satisfied(atCall.position, constraints)
     /\ Satisfied(atCall.position, lengthConstraints))
    => position = atCall.position

\* C7 witness: simulate(0) returned from such a state, with pins and length
\* constraints in place
C7_Witness ==
    /\ Returned("simulate") /\ call.arg = Num(0)
    /\ atCall.previous = atCall.position
    /\ \A k \in 1..Len(pins) : atCall.position[pins[k]] = original(pins[k])
    /\ Satisfied(atCall.position, constraints)
    /\ Satisfied(atCall.position, lengthConstraints)
    /\ pins # << >> /\ lengthConstraints # << >>

\* C8: reset sets position and previous of every particle to original and
\* leaves pins and lengthConstraints as they were; a second reset changes
\* nothing.
C8_ResetFrame ==
    [][call'.op = "reset"
        => /\ pins' = pins
           /\ lengthConstraints' = lengthConstraints
           /\ \A p \in Particles : position'[p] = original(p) /\ previous'[p] = original(p)
           /\ call.op = "reset" => position' = position /\ previous' = previous]_vars

\* C8 witness: reset returned on a flag that had moved, with pins and
\* length constraints in place
C8_Witness ==
    /\ Returned("reset")
    /\ atCall.position # position
    /\ pins # << >> /\ lengthConstraints # << >>

\* the steps of one Flag.simulate call, in order
FrameSteps ==
    <<[step |-> "cloth", at |-> 0]>>
    \o [k \in 1..Len(pins) |-> [step |-> "pin", at |-> k]]
    \o [k \in 1..Len(lengthConstraints) |-> [step |-> "resolve", at |-> k]]

\* C9: every Flag.simulate call runs the cloth's simulate, then sets every
\* particle of pins to original, then resolves every length constraint once
\* in stored order; nothing else, and in no other order.
C9_FrameOrder ==
    call.op = "simulate" =>
        /\ Len(done) <= Len(FrameSteps)
        /\ done = SubSeq(FrameSteps, 1, Len(done))
        /\ pc = "idle" => done = FrameSteps
        /\ \A k \in 1..Len(pins) :
              Len(done) = 1 + k =>
                  position[pins[k]] = original(pins[k]) /\ previous[pins[k]] = original(pins[k])

\* C9 witness: a call returned after two pins and two length constraints
C9_Witness ==
    /\ Returned("simulate")
    /\ Len(pins) >= 2 /\ Len(lengthConstraints) >= 2
    /\ Len(done) = 1 + Len(pins) + Len(lengthConstraints)

\* C10: setLengthConstraints(left) stores exactly the (ySegments+1)*xSegments
\* constraints (u,v)-(u+1,v), and setLengthConstraints(top) exactly the
\* (xSegments+1)*ySegments constraints (u,v)-(u,v-1), each with target
\* restDistance and its first particle nearer the pinned edge; along a row
\* (left) or a column (top) a constraint nearer the pinned edge comes first.
C10_HoistOrder ==
    LET lc == lengthConstraints
        n == Len(lc)
        horizontal == {FixedConstraint(<<u, v>>, <<u + 1, v>>, restDistance) :
                          u \in 0..(xSegments - 1), v \in 0..ySegments}
        vertical == {FixedConstraint(<<u, v>>, <<u, v - 1>>, restDistance) :
                          u \in 0..xSegments, v \in 1..ySegments}
    IN  /\ (call.op = "setLengthConstraints" /\ call.arg = Str(LEFT)) =>
              /\ n = (ySegments + 1) * xSegments
              /\ {lc[k] : k \in 1..n} = horizontal
              /\ \A j, k \in 1..n :
                    (lc[j].p1[2] = lc[k].p1[2] /\ lc[j].p1[1] < lc[k].p1[1]) => j < k
        /\ (call.op = "setLengthConstraints" /\ call.arg = Str(TOP)) =>
              /\ n = (xSegments + 1) * ySegments
              /\ {lc[k] : k \in 1..n} = vertical
              /\ \A j, k \in 1..n :
                    (lc[j].p1[1] = lc[k].p1[1] /\ lc[j].p1[2] > lc[k].p1[2]) => j < k

\* C10 witness: both orders on a grid with at least two segments each way
C10_Witness ==
    /\ call.op = "setLengthConstraints" /\ call.arg = Str(TOP)
    /\ xSegments >= 2 /\ ySegments >= 2
    /\ Len(lengthConstraints) = (xSegments + 1) * ySegments

====
